---- MODULE Spec2Model ----
(***************************************************************************)
(* Model of fetch_proxies.js: the relay validation pool (main.worker,      *)
(* validateProxy) and the paginated crawler (fetchPage, the crawl loop).   *)
(* The two scripts run independently; each has its own specification over  *)
(* the shared variable tuple: PoolSpec / PoolFair and CrawlSpec.           *)
(***************************************************************************)
EXTENDS Integers, Sequences, FiniteSets, TLC

(* ---------------------------------------------------------------- bounds *)
\* largest number of candidates handed to the pool
MaxCandidates == 3
\* the small worker counts explored next to the program's own CONCURRENCY
MaxWorkers == 2
\* largest configured MAX_PAGES explored
MaxPagesBound == 6
\* largest number of relays read from proxies_good.txt
MaxRelays == 2
\* latest clock reading (seconds after the first one) of Date.now()
MaxClock == 1
\* largest MAX_PAGES of the runs that are repeated against a pinned upstream
MaxReplayPages == 2
\* how many successive writeIfDifferent calls are explored
MaxCalls == 3
\* largest MAX_PAGES of the runs checked for termination
MaxLivePages == 4
\* longest input line handed to normalizeLine
MaxLineLen == 5
\* number of source lists fetched
MaxSources == 3

(* ------------------------------------------------------ program constants *)
CONCURRENCY == 12
RETRY_BUDGET == 6
RATE_LIMIT_DELAY == 60
DEFAULT_DELAY == 10
PROXY_EVERY == 3
\* Array.from(all).slice(0, 750) (line 97)
CANDIDATE_CAP == 750

\* JavaScript's undefined / null, kept as strings so that every field of a
\* record has one type
undefined == "undefined"
null == "null"

Min(a, b) == IF a <= b THEN a ELSE b

VARIABLES
    \* ---- validation pool (main, lines 100-126)
    candidates,     \* the array `candidates`: distinct candidate ids
    concurrency,    \* the worker count asked for (CONCURRENCY in the source)
    idx,            \* the shared counter `idx`
    good,           \* the array `good`
    workers,        \* one entry per started worker: [pc, i]
    poolState,      \* "collected" | "validating" | "complete"
    claims,         \* history: how many times each index was claimed
    response,       \* history: the echo response each tested index received
    \* ---- crawler (lines 233-323)
    MAX_PAGES,      \* configured maximum page count
    PROXIES,        \* the relays loaded from proxies_good.txt
    pageCount,
    cursor,
    tries,
    servers,
    state,          \* "Fetching" | "Retrying" | "Pausing" | "Completed" | "Aborted"
    attempt,        \* the request in flight: [page, cursor, tunneled, relay]
    upstream,       \* what the upstream answered to the last attempt
    err,            \* the error fetchPage threw for the last failed attempt
    delay,          \* backoff delay (seconds) of the last retry
    data,           \* the last successfully fetched page
    failRun,        \* history: failed attempts since the last successful page
    \* ---- persistence and process exit (lines 221-231, 300-322)
    file,           \* server_list.json: [exists, content]
    wrote,          \* what writeIfDifferent returned in this run: "none" | "true" | "false"
    exit,           \* "running" | "0" | "1" (process.exit)
    now,            \* the last reading of the clock, in seconds
    run,            \* which run of the script this is
    fileAtStart,    \* history: server_list.json when this run started
    api,            \* the upstream's pages by cursor when it is pinned, else <<>>
    calls,          \* history: the writeIfDifferent calls made one after the other
    \* ---- aggregation (lines 83-98)
    srcResult,      \* per source: "pending" or the name of what its fetch gave
    all,            \* the Set `all`, in insertion order
    aggState,       \* "fetching" | "collected"
    \* ---- normalizeLine applied twice (lines 35-48)
    line,
    norm1,
    norm2

poolVars == <<candidates, concurrency, idx, good, workers, poolState, claims, response>>
crawlVars == <<MAX_PAGES, PROXIES, pageCount, cursor, tries, servers, state,
               attempt, upstream, err, delay, data, failRun>>
runVars == <<file, wrote, exit, now, run, fileAtStart, api, calls>>
aggVars == <<srcResult, all, aggState>>
normVars == <<line, norm1, norm2>>
vars == <<poolVars, crawlVars, runVars, aggVars, normVars>>

(***************************************************************************)
(* normalizeLine (lines 35-48): a line is a sequence of characters         *)
(***************************************************************************)
Whitespace == {" ", "\t", "\r"}
Letters == {"a", "h", "t", "p"}
Digits == {"0", "1", "2", "3", "4", "5", "6", "7", "8", "9"}
\* [\w.-]
HostChars == Letters \cup Digits \cup {"_", ".", "-"}

RECURSIVE trimStart(_)
trimStart(l) ==
    IF l # <<>> /\ Head(l) \in Whitespace THEN trimStart(Tail(l)) ELSE l

RECURSIVE trimEnd(_)
trimEnd(l) ==
    IF l # <<>> /\ l[Len(l)] \in Whitespace
    THEN trimEnd(SubSeq(l, 1, Len(l) - 1)) ELSE l

\* String.prototype.trim (line 37)
trim(l) == trimEnd(trimStart(l))

\* /^[a-zA-Z]+:\/\// (line 41)
hasScheme(l) ==
    \E k \in 1..Len(l) :
        /\ \A j \in 1..k : l[j] \in Letters
        /\ k + 3 <= Len(l)
        /\ l[k + 1] = ":" /\ l[k + 2] = "/" /\ l[k + 3] = "/"

\* /^<class>+:\d+$/ for a character class that does not hold ":"
matchesHostPort(l, class) ==
    \E k \in 1..Len(l) :
        /\ \A j \in 1..k : l[j] \in class
        /\ k + 2 <= Len(l)
        /\ l[k + 1] = ":"
        /\ \A j \in (k + 2)..Len(l) : l[j] \in Digits

\* line 43
isHostPort(l) ==
    \/ matchesHostPort(l, Digits \cup {"."})
    \/ matchesHostPort(l, HostChars)

HTTP == <<"h", "t", "t", "p", ":", "/", "/">>
NoLine == [state |-> "absent", text |-> <<>>]
Kept(t) == [state |-> "present", text |-> t]

normalizeLineMutAlwaysPrefixes(raw) ==
    LET l == trim(raw) IN
    IF l = <<>> THEN NoLine
    ELSE IF Head(l) = "#" THEN NoLine
    ELSE IF isHostPort(l) \/ hasScheme(l) THEN Kept(HTTP \o l)
    ELSE NoLine
normalizeLine(raw) ==
    LET l == trim(raw) IN
    IF l = <<>> THEN NoLine                       \* line 38
    ELSE IF Head(l) = "#" THEN NoLine             \* line 39
    ELSE IF hasScheme(l) THEN Kept(l)             \* line 41
    ELSE IF isHostPort(l) THEN Kept(HTTP \o l)    \* lines 43-45
    ELSE NoLine                                   \* line 47

(***************************************************************************)
(* Aggregation of the source lists (lines 50-62 and 83-98)                 *)
(***************************************************************************)
SOURCES == 1..MaxSources

DigitChar(d) == <<"0", "1", "2", "3", "4", "5", "6", "7", "8", "9">>[d + 1]

RECURSIVE decimal(_)
decimal(n) ==
    IF n < 10 THEN <<DigitChar(n)>>
    ELSE Append(decimal(n \div 10), DigitChar(n % 10))

\* A list of the lines  <lo>:1 ... <hi>:1
Bulk(lo, hi) == [k \in 1..(hi - lo + 1) |-> decimal(lo + k - 1) \o <<":", "1">>]

SmallA ==
    <<<<"a", ":", "1">>,
      <<" ", "a", ":", "1", " ">>,
      <<"#", "a", ":", "2">>,
      <<>>,
      <<"h", "t", "t", "p", ":", "/", "/", "a", ":", "1">>,
      <<"1", ".", "1", ":", "1">>,
      <<"a">>,
      <<" ">>>>
SmallB ==
    <<<<"1", ".", "1", ":", "1">>,
      <<"a", ":", "1", "\r">>,
      <<"a", ":", "/", "/">>,
      <<"a", ":", "1", "1">>,
      <<":", ":">>>>
BulkA == Bulk(1, 400)
BulkB == Bulk(351, 800)

\* What each source can answer with when the request succeeds
Bodies(s) ==
    IF s = 1 THEN {SmallA, BulkA}
    ELSE IF s = 2 THEN {SmallB, BulkB}
    ELSE {SmallA, SmallB}

\* How a request for a source ends: fetch throws, the status is not ok
\* (the body is still there), or the status is ok
Outcomes(s) ==
    {[kind |-> "error", lines |-> <<>>],
     [kind |-> "status", lines |-> SmallB],
     [kind |-> "ok", lines |-> <<>>]}
    \cup {[kind |-> "ok", lines |-> b] : b \in Bodies(s)}
Pending == [kind |-> "pending", lines |-> <<>>]

\* fetchSource (lines 50-62): the lines of the text it returns
fetchSource(o) == IF o.kind = "ok" THEN o.lines ELSE <<>>

\* A Set: its members, and the order they were inserted in
NewSet == [members |-> {}, order |-> <<>>]

\* Set.prototype.add for the values xs in turn: a value already in the set,
\* or added earlier in xs, is not inserted again (line 92)
addAllMutKeepsDuplicates(set, xs) ==
    [members |-> set.members \cup {xs[k] : k \in DOMAIN xs},
     order |-> set.order \o xs]
addAll(set, xs) ==
    LET isNew(k) == /\ xs[k] \notin set.members
                    /\ \A j \in 1..(k - 1) : xs[j] # xs[k]
        inserted == SelectSeq([k \in DOMAIN xs |-> k], isNew)
    IN  [members |-> set.members \cup {xs[k] : k \in DOMAIN xs},
         order |-> set.order \o [i \in DOMAIN inserted |-> xs[inserted[i]]]]

\* The candidates of a text, line by line (lines 89-91)
isPresent(norm) == norm.state = "present"
normalized(ls) ==
    LET norms == SelectSeq([k \in DOMAIN ls |-> normalizeLine(ls[k])], isPresent)
    IN  [k \in DOMAIN norms |-> norms[k].text]

\* Array.from
ArrayFrom(set) == set.order

\* Array.prototype.slice(0, n)
sliceMutNoCap(arr, n) == arr
slice(arr, n) == SubSeq(arr, 1, Min(Len(arr), n))

(***************************************************************************)
(* validateProxy (lines 64-80)                                             *)
(***************************************************************************)
\* The bodies an echo request can print on stdout, and what JSON.parse makes
\* of them: a SyntaxError, null, or an object with its ip field.
EchoBodies == {"", "<html>", "null", "{}", "{ip:''}", "{ip:'1.2.3.4'}"}

JSONparseEcho(text) ==
    CASE text = "null"           -> [kind |-> "null",   ip |-> undefined]
      [] text = "{}"             -> [kind |-> "object", ip |-> undefined]
      [] text = "{ip:''}"        -> [kind |-> "object", ip |-> ""]
      [] text = "{ip:'1.2.3.4'}" -> [kind |-> "object", ip |-> "1.2.3.4"]
      [] OTHER                   -> [kind |-> "SyntaxError", ip |-> undefined]

\* JavaScript truthiness of a string-or-undefined value (`!!obj.ip`)
Truthy(v) == v # undefined /\ v # null /\ v # ""

\* What a single curl run through a candidate can produce.  curl is run
\* with -s and --max-time only: a transport error or a timeout makes execP
\* reject; any HTTP status leaves exit code 0 and the body on stdout.
EchoResponses ==
    { [transport |-> "error",   status |-> 0, stdout |-> ""],
      [transport |-> "timeout", status |-> 0, stdout |-> ""] }
    \cup { [transport |-> "ok", status |-> 200, stdout |-> b] : b \in EchoBodies }
    \cup { [transport |-> "ok", status |-> 403, stdout |-> b] :
              b \in {"<html>", "{ip:'1.2.3.4'}"} }

\* an index whose test has not settled yet
NoResponse == [transport |-> "none", status |-> 0, stdout |-> ""]

validateProxy(r) ==
    IF r.transport # "ok" THEN FALSE                 \* outer catch, line 77
    ELSE IF r.stdout = "" THEN FALSE                 \* line 69
    ELSE LET obj == JSONparseEcho(r.stdout) IN
         IF obj.kind = "SyntaxError" THEN FALSE      \* inner catch, line 74
         ELSE IF obj.kind = "null" THEN FALSE        \* obj.ip throws, line 74
         ELSE Truthy(obj.ip)                         \* line 73

(***************************************************************************)
(* The pool (lines 100-126)                                                *)
(***************************************************************************)
N == Len(candidates)

\* `idx++` (line 105): the value read and the counter left behind
ClaimMutSame(c) == [i |-> c, idx |-> c]
Claim(c) == [i |-> c, idx |-> c + 1]

\* Math.min(CONCURRENCY, candidates.length) (line 121)
WorkerCountMutNoMin(conc, n) == conc
WorkerCount(conc, n) == Min(conc, n)

\* good.push(p) (line 113)
PushMutOverwrite(g, p) == <<p>>
Push(g, p) == Append(g, p)

\* Lines 105-107 for one worker: claim, then leave the loop or start the test
Entered(c) ==
    IF Claim(c).i >= N THEN [pc |-> "done", i |-> Claim(c).i]
                       ELSE [pc |-> "testing", i |-> Claim(c).i]

RECURSIVE StartAll(_, _, _)
\* Array.from({length: k}, () => worker()): each worker() runs synchronously
\* up to its first await, so the k claims happen one after the other.
\* Returns [idx, ws] after starting the workers that are still to start.
StartAll(k, c, ws) ==
    IF k = 0 THEN [idx |-> c, ws |-> ws]
    ELSE StartAll(k - 1, Claim(c).idx, Append(ws, Entered(c)))

Bump(cl, ws) ==
    [j \in DOMAIN cl |->
        cl[j] + Cardinality({w \in DOMAIN ws : ws[w].i = j})]

ConcurrencyChoices == (1..MaxWorkers) \cup {CONCURRENCY}

\* server_list.json before anything was written
Absent == [exists |-> FALSE, content |-> ""]

RunIdle ==
    /\ file = Absent /\ wrote = "none" /\ exit = "running" /\ now = 0 /\ run = 1
    /\ fileAtStart = Absent /\ api = <<>> /\ calls = <<>>

AggIdle == srcResult = <<>> /\ all = NewSet /\ aggState = "idle"

NormIdle == line = <<>> /\ norm1 = <<>> /\ norm2 = <<>>

CrawlIdle ==
    /\ MAX_PAGES = 0 /\ PROXIES = <<>> /\ pageCount = 0 /\ cursor = null
    /\ tries = 0 /\ servers = <<>> /\ state = "Idle"
    /\ attempt = [page |-> 0, cursor |-> null, tunneled |-> FALSE, relay |-> -1]
    /\ upstream = [kind |-> "none", status |-> 0, next |-> null, items |-> <<>>]
    /\ err = [status |-> undefined]
    /\ delay = 0
    /\ data = [next |-> null, items |-> <<>>]
    /\ failRun = 0

\* State at line 102: candidates collected, nothing claimed yet
PoolInit ==
    /\ \E n \in 0..MaxCandidates : candidates = [k \in 1..n |-> k]
    /\ concurrency \in ConcurrencyChoices
    /\ idx = 0
    /\ good = <<>>
    /\ workers = <<>>
    /\ poolState = "collected"
    /\ claims = [j \in 0..(Len(candidates) + CONCURRENCY) |-> 0]
    /\ response = [j \in 0..(Len(candidates) - 1) |-> NoResponse]
    /\ CrawlIdle /\ RunIdle /\ AggIdle /\ NormIdle

\* Line 121: start the workers
StartWorkers ==
    /\ poolState = "collected"
    /\ LET s == StartAll(WorkerCount(concurrency, N), idx, <<>>) IN
         /\ idx' = s.idx
         /\ workers' = s.ws
         /\ claims' = Bump(claims, s.ws)
    /\ poolState' = "validating"
    /\ UNCHANGED <<candidates, concurrency, good, response, crawlVars, runVars, aggVars, normVars>>

\* Lines 110-118 then 105-107: the awaited test of worker w settles with
\* response r; the worker appends on success and claims the next index.
TestSettles(w, r) ==
    /\ poolState = "validating"
    /\ w \in DOMAIN workers
    /\ workers[w].pc = "testing"
    /\ LET i == workers[w].i
           p == candidates[i + 1]
           e == Entered(idx)
       IN /\ good' = IF validateProxy(r) THEN Push(good, p) ELSE good
          /\ response' = [response EXCEPT ![i] = r]
          /\ idx' = Claim(idx).idx
          /\ workers' = [workers EXCEPT ![w] = e]
          /\ claims' = [claims EXCEPT ![e.i] = @ + 1]
    /\ UNCHANGED <<candidates, concurrency, poolState, crawlVars, runVars, aggVars, normVars>>

\* Promise.all(workers) (line 122): every worker's promise has resolved
JoinMutAny == workers # <<>> => \E w \in DOMAIN workers : workers[w].pc = "done"
Join == \A w \in DOMAIN workers : workers[w].pc = "done"

\* Lines 122-126: Promise.all resolves once every worker has returned
PoolCompletes ==
    /\ poolState = "validating"
    /\ Join
    /\ poolState' = "complete"
    /\ UNCHANGED <<candidates, concurrency, idx, good, workers, claims, response,
                   crawlVars, runVars, aggVars, normVars>>

PoolNext ==
    \/ StartWorkers
    \/ \E w \in DOMAIN workers, r \in EchoResponses : TestSettles(w, r)
    \/ PoolCompletes

PoolSpec == PoolInit /\ [][PoolNext]_vars

\* Every curl run ends (--max-time, and the execP timeout behind it), and
\* the event loop runs every settled promise's continuation.
PoolFair == PoolSpec /\ WF_vars(PoolNext)

(***************************************************************************)
(* The crawler (lines 137-323)                                             *)
(***************************************************************************)
\* Page items of the paginated API, as the filter of line 274 sees them
ItemOpen  == [id |-> "a", idType |-> "string", playing |-> 1, maxPlayers |-> 2,
              created |-> "2024-01-01"]
ItemFull  == [id |-> "b", idType |-> "string", playing |-> 2, maxPlayers |-> 2,
              created |-> "2024-01-02"]
ItemEmpty == [id |-> "c", idType |-> "string", playing |-> 0, maxPlayers |-> 3,
              created |-> undefined]
ItemOver  == [id |-> "d", idType |-> "string", playing |-> 3, maxPlayers |-> 2,
              created |-> "2024-01-03"]
ItemNoId  == [id |-> "7", idType |-> "number", playing |-> 0, maxPlayers |-> 2,
              created |-> "2024-01-04"]

PageLists == { <<>>, <<ItemOpen>>, <<ItemFull, ItemEmpty, ItemOver, ItemNoId>> }
Cursors == {"c1", "c2"}

\* What the upstream can answer to one page request: a 2xx with a body of
\* the documented shape, a 2xx with a body that is not JSON, a non-2xx
\* status, or no answer at all (network error, timeout).
OkAnswers ==
    { [kind |-> "ok", status |-> "200", next |-> c, items |-> l] :
         c \in Cursors \cup {null}, l \in PageLists }
FailAnswers ==
    { [kind |-> "http", status |-> st, next |-> null, items |-> <<>>] :
         st \in {"429", "500"} }
    \cup { [kind |-> "transport", status |-> undefined, next |-> null, items |-> <<>>],
           [kind |-> "unparseable", status |-> "200", next |-> null, items |-> <<>>] }

\* Line 243
shouldProxyMutEveryPage(pc) == Len(PROXIES) > 0
shouldProxy(pc) == Len(PROXIES) > 0 /\ (pc + 1) % PROXY_EVERY = 0

\* Line 244: the index into PROXIES (0-based, as in the source)
proxyIndex(pc) == (pc \div PROXY_EVERY) % Len(PROXIES)

\* Lines 243-248: the request issued for the page after `pc` with cursor `cur`
NewAttemptMutDropsCursor(pc, cur) ==
    [page     |-> pc + 1,
     cursor   |-> null,
     tunneled |-> shouldProxy(pc),
     relay    |-> IF shouldProxy(pc) THEN proxyIndex(pc) ELSE -1]
NewAttemptMutDirectOnRetry(pc, cur) ==
    [page     |-> pc + 1,
     cursor   |-> cur,
     tunneled |-> shouldProxy(pc) /\ tries = 0,
     relay    |-> IF shouldProxy(pc) /\ tries = 0 THEN proxyIndex(pc) ELSE -1]
NewAttempt(pc, cur) ==
    [page     |-> pc + 1,
     cursor   |-> cur,
     tunneled |-> shouldProxy(pc),
     relay    |-> IF shouldProxy(pc) THEN proxyIndex(pc) ELSE -1]

\* fetchWithCurl + fetchPage (lines 184-219): what `await fetchPage` gives
\* for attempt a when the upstream answers u.  Tunneled requests go through
\* curl --fail, whose error carries no status; direct requests throw an
\* error carrying res.status; JSON.parse throws a SyntaxError without status.
fetchPage(a, u) ==
    IF a.tunneled
    THEN CASE u.kind = "ok"          -> [ok |-> TRUE,  status |-> undefined]
           [] u.kind = "unparseable" -> [ok |-> FALSE, status |-> undefined]
           [] OTHER                  -> [ok |-> FALSE, status |-> undefined]
    ELSE CASE u.kind = "ok"          -> [ok |-> TRUE,  status |-> undefined]
           [] u.kind = "http"        -> [ok |-> FALSE, status |-> u.status]
           [] u.kind = "unparseable" -> [ok |-> FALSE, status |-> undefined]
           [] OTHER                  -> [ok |-> FALSE, status |-> undefined]

\* Lines 253-254
backoff(status, t) ==
    (IF status = "429" THEN RATE_LIMIT_DELAY ELSE DEFAULT_DELAY) * t

\* Line 252
budgetExceededMutOffByOne(t) == t >= RETRY_BUDGET
budgetExceeded(t) == t > RETRY_BUDGET

\* Line 274 and lines 275-280
keepsMutAllowsFull(s) == s.idType = "string" /\ s.playing <= s.maxPlayers
keeps(s) == s.idType = "string" /\ s.playing < s.maxPlayers
\* `x || null` on a string-or-undefined value
OrNull(v) == IF Truthy(v) THEN v ELSE null
\* playing and maxPlayers are numbers, for which `x || 0` is x
record(s) == [id |-> s.id, playing |-> s.playing, maxPlayers |-> s.maxPlayers,
              created |-> OrNull(s.created)]

RECURSIVE pushAll(_, _)
\* Lines 273-282
pushAll(acc, list) ==
    IF list = <<>> THEN acc
    ELSE pushAll(IF keeps(Head(list)) THEN Append(acc, record(Head(list))) ELSE acc,
                 Tail(list))

\* Lines 285 and 291: the two loop exits after a successful page
reachedMaxMutNever(pc) == FALSE
reachedMaxMutOffByOne(pc) == pc > MAX_PAGES
reachedMax(pc) == pc >= MAX_PAGES
cursorAbsent(c) == ~Truthy(c)

PoolIdle ==
    /\ candidates = <<>> /\ concurrency = CONCURRENCY /\ idx = 0 /\ good = <<>>
    /\ workers = <<>> /\ poolState = "idle"
    /\ claims = <<>> /\ response = <<>>

\* State at the first `await fetchPage` (line 248): the variables of lines
\* 235-238 and the first request in flight.
CrawlInit ==
    /\ MAX_PAGES \in -1..MaxPagesBound
    /\ \E n \in 0..MaxRelays : PROXIES = [k \in 1..n |-> k]
    /\ pageCount = 0
    /\ cursor = null
    /\ tries = 0
    /\ servers = <<>>
    /\ state = "Fetching"
    /\ attempt = NewAttempt(0, null)
    /\ upstream = [kind |-> "none", status |-> undefined, next |-> null, items |-> <<>>]
    /\ err = [status |-> undefined]
    /\ delay = 0
    /\ data = [next |-> null, items |-> <<>>]
    /\ failRun = 0
    /\ RunIdle
    /\ PoolIdle /\ AggIdle /\ NormIdle

\* Lines 249-257: the awaited fetch throws
FetchFails(u) ==
    /\ state = "Fetching"
    /\ ~fetchPage(attempt, u).ok
    /\ upstream' = u
    /\ tries' = tries + 1
    /\ failRun' = failRun + 1
    /\ err' = [status |-> fetchPage(attempt, u).status]
    /\ IF budgetExceeded(tries')
       THEN /\ state' = "Aborted"          \* throw err: lines 252, 315-321
            /\ exit' = "1"
            /\ delay' = delay
       ELSE /\ state' = "Retrying"
            /\ exit' = exit
            /\ delay' = backoff(err'.status, tries')
    /\ UNCHANGED <<MAX_PAGES, PROXIES, pageCount, cursor, servers, attempt, data,
                   file, wrote, now, run, fileAtStart, api, calls,
                   poolVars, aggVars, normVars>>

\* Lines 256-257 then 243-248: the backoff sleep ends and the loop issues
\* the next request
BackoffElapsesMutNeverResolves ==
    /\ state = "Retrying"
    /\ FALSE
    /\ UNCHANGED vars
BackoffElapses ==
    /\ state = "Retrying"
    /\ state' = "Fetching"
    /\ attempt' = NewAttempt(pageCount, cursor)
    /\ UNCHANGED <<MAX_PAGES, PROXIES, pageCount, cursor, tries, servers, upstream,
                   err, delay, data, failRun, runVars, poolVars, aggVars, normVars>>

\* Lines 260-297: the awaited fetch returns a page
FetchSucceeds(u) ==
    /\ state = "Fetching"
    /\ fetchPage(attempt, u).ok
    /\ upstream' = u
    /\ data' = [next |-> u.next, items |-> u.items]
    /\ tries' = 0
    /\ failRun' = 0
    /\ servers' = pushAll(servers, u.items)
    /\ pageCount' = pageCount + 1
    /\ IF reachedMax(pageCount')
       THEN /\ cursor' = cursor
            /\ state' = "Completed"
       ELSE /\ cursor' = u.next
            /\ state' = IF cursorAbsent(cursor') THEN "Completed" ELSE "Pausing"
    /\ UNCHANGED <<MAX_PAGES, PROXIES, attempt, err, delay, runVars,
                   poolVars, aggVars, normVars>>

\* Line 297 then 243-248: the politeness pause ends and the loop issues the
\* next request
PauseElapses ==
    /\ state = "Pausing"
    /\ state' = "Fetching"
    /\ attempt' = NewAttempt(pageCount, cursor)
    /\ UNCHANGED <<MAX_PAGES, PROXIES, pageCount, cursor, tries, servers, upstream,
                   err, delay, data, failRun, runVars, poolVars, aggVars, normVars>>

(***************************************************************************)
(* Persistence (lines 221-231, 300-314)                                    *)
(***************************************************************************)
\* PLACE_ID (line 149) exceeds 32 bits; only its text matters here
PLACE_ID == "109983668079237"

\* JSON.stringify(payload, null, 2): the text of the payload's three fields
stringify(payload) ==
    ToString(<<payload.fetched_at, payload.placeId, payload.servers>>)

\* writeIfDifferent (lines 221-231): the file it leaves and what it returns
writeIfDifferentMutAlways(f, contentStr) ==
    [file |-> [exists |-> TRUE, content |-> contentStr], ret |-> TRUE]
writeIfDifferent(f, contentStr) ==
    IF f.exists /\ f.content = contentStr
    THEN [file |-> f, ret |-> FALSE]
    ELSE [file |-> [exists |-> TRUE, content |-> contentStr], ret |-> TRUE]

\* Lines 240-300: the payload is built only when the loop was left by break
reachesPersistMutAfterAbort == state \in {"Completed", "Aborted"} /\ wrote = "none"
reachesPersist == state = "Completed" /\ exit = "running"

\* Math.floor(Date.now() / 1000) (line 301): `now` counts the seconds from
\* the first run's reading, so the first run reads 0 and a later run reads
\* any value from the last reading on.
ClockReadings == IF run = 1 THEN {0} ELSE now..MaxClock

\* Lines 300-314: build the payload at clock reading t, write it if it
\* differs, exit with status 0
Persist(t) ==
    /\ reachesPersist
    /\ now' = t
    /\ LET payload == [fetched_at |-> t, placeId |-> PLACE_ID, servers |-> servers]
           w == writeIfDifferent(file, stringify(payload))
       IN /\ file' = w.file
          /\ wrote' = IF w.ret THEN "true" ELSE "false"
    /\ exit' = "0"
    /\ UNCHANGED <<crawlVars, run, fileAtStart, api, calls, poolVars, aggVars, normVars>>

CrawlNext ==
    \/ \E u \in FailAnswers \cup OkAnswers : FetchFails(u)
    \/ BackoffElapses
    \/ \E u \in OkAnswers : FetchSucceeds(u)
    \/ PauseElapses
    \/ \E t \in ClockReadings : Persist(t)

CrawlSpec == CrawlInit /\ [][CrawlNext]_vars

\* Every fetch settles (curl --max-time, the runtime's fetch timeouts) and
\* every setTimeout fires.
LiveInit == CrawlInit /\ MAX_PAGES <= MaxLivePages
CrawlFair == LiveInit /\ [][CrawlNext]_vars /\ WF_vars(CrawlNext)

(***************************************************************************)
(* The script run twice against the same upstream                          *)
(***************************************************************************)
CursorKeys == Cursors \cup {null}

\* The upstream's state: the page it serves for each cursor
Datasets == [CursorKeys -> OkAnswers]

\* the pinned upstream answers the request in flight with its page
Serves(u) == u = api[attempt.cursor]

TransportFailures == { u \in FailAnswers : u.kind = "transport" }

TwoRunInit ==
    /\ MAX_PAGES \in 1..MaxReplayPages
    /\ PROXIES = <<>>
    /\ pageCount = 0
    /\ cursor = null
    /\ tries = 0
    /\ servers = <<>>
    /\ state = "Fetching"
    /\ attempt = NewAttempt(0, null)
    /\ upstream = [kind |-> "none", status |-> undefined, next |-> null, items |-> <<>>]
    /\ err = [status |-> undefined]
    /\ delay = 0
    /\ data = [next |-> null, items |-> <<>>]
    /\ failRun = 0
    /\ file = Absent /\ wrote = "none" /\ exit = "running" /\ now = 0 /\ run = 1
    /\ fileAtStart = Absent /\ calls = <<>>
    /\ api \in Datasets
    /\ PoolIdle /\ AggIdle /\ NormIdle

\* The script is started again after process.exit: lines 155 and 235-238
\* reset the run's variables, server_list.json stays as the earlier run
\* left it, and the first request is issued (lines 243-248).
NextRun ==
    /\ exit \in {"0", "1"}
    /\ run < 2
    /\ run' = run + 1
    /\ pageCount' = 0
    /\ cursor' = null
    /\ tries' = 0
    /\ servers' = <<>>
    /\ state' = "Fetching"
    /\ attempt' = NewAttempt(0, null)
    /\ failRun' = 0
    /\ wrote' = "none"
    /\ exit' = "running"
    /\ fileAtStart' = file
    /\ UNCHANGED <<MAX_PAGES, PROXIES, upstream, err, delay, data, file, now, api,
                   calls, poolVars, aggVars, normVars>>

TwoRunNext ==
    \/ \E u \in TransportFailures : FetchFails(u)
    \/ BackoffElapses
    \/ \E u \in OkAnswers : Serves(u) /\ FetchSucceeds(u)
    \/ PauseElapses
    \/ \E t \in ClockReadings : Persist(t)
    \/ NextRun

TwoRunSpec == TwoRunInit /\ [][TwoRunNext]_vars

(***************************************************************************)
(* writeIfDifferent called several times in succession                     *)
(***************************************************************************)
\* The serialized snapshots handed to writeIfDifferent
Contents ==
    { stringify([fetched_at |-> t, placeId |-> PLACE_ID, servers |-> sv]) :
        t \in 0..MaxClock, sv \in {<<>>, <<record(ItemOpen)>>} }

WriteInit ==
    /\ file \in {Absent} \cup { [exists |-> TRUE, content |-> c] : c \in Contents }
    /\ calls = <<>>
    /\ wrote = "none" /\ exit = "running" /\ now = 0 /\ run = 1
    /\ fileAtStart = file /\ api = <<>>
    /\ CrawlIdle /\ PoolIdle /\ AggIdle /\ NormIdle

\* One call writeIfDifferent(OUTPUT_FILE, c) (line 307)
WriteCall(c) ==
    /\ Len(calls) < MaxCalls
    /\ LET w == writeIfDifferent(file, c) IN
         /\ file' = w.file
         /\ wrote' = IF w.ret THEN "true" ELSE "false"
         /\ calls' = Append(calls, [content |-> c, ret |-> w.ret, before |-> file])
    /\ UNCHANGED <<exit, now, run, fileAtStart, api, crawlVars, poolVars, aggVars,
                   normVars>>

WriteNext == \E c \in Contents : WriteCall(c)

WriteSpec == WriteInit /\ [][WriteNext]_vars

(***************************************************************************)
(* Claims about the validation pool                                        *)
(***************************************************************************)
InFlight == {w \in DOMAIN workers : workers[w].pc = "testing"}
Succeeded == {j \in 0..(N - 1) : validateProxy(response[j])}
Range(f) == {f[k] : k \in DOMAIN f}

\* C1: every index below N is claimed and tested exactly once: no index is
\* claimed twice, no two workers test the same index, no index below the
\* shared counter was skipped, and at completion all N have been tested.
C1_EachClaimedOnce ==
    /\ \A j \in 0..(N - 1) : claims[j] <= 1
    /\ \A j \in 0..(N - 1) : j < idx => claims[j] = 1
    /\ \A v, w \in InFlight : workers[v].i = workers[w].i => v = w
    /\ \A j \in 0..(N - 1) :
          response[j] # NoResponse => claims[j] = 1
    /\ poolState = "complete" =>
          \A j \in 0..(N - 1) : claims[j] = 1 /\ response[j] # NoResponse

\* three candidates shared by two workers, with failures and a timeout
C1_Witness ==
    /\ poolState = "complete" /\ N = 3 /\ concurrency = 2
    /\ response[0].transport = "timeout"
    /\ response[1].transport = "error"
    /\ validateProxy(response[2])

\* C2: once the pool has completed, `good` holds exactly the candidates
\* whose test succeeded, each once.
C2_GoodIsSucceeded ==
    poolState = "complete" =>
        /\ Range(good) = {candidates[j + 1] : j \in Succeeded}
        /\ Len(good) = Cardinality(Succeeded)
        /\ (Succeeded = {} => good = <<>>)
        /\ (Succeeded = 0..(N - 1) => Range(good) = Range(candidates))

\* all three succeed and are appended out of candidate order
C2_Witness ==
    /\ poolState = "complete" /\ N = 3
    /\ Succeeded = 0..2
    /\ good = <<2, 1, 3>>

\* C3: at most min(concurrency, N) tests are in flight, no more workers than
\* that are ever started, and none at all when there are no candidates.
C3_BoundedInFlight ==
    /\ Cardinality(InFlight) <= Min(concurrency, N)
    /\ Len(workers) <= Min(concurrency, N)
    /\ (N = 0 => workers = <<>>)

\* the bound is the worker count in one state and the candidate count in another
C3_Witness ==
    /\ N = 3 /\ concurrency = 2 /\ Cardinality(InFlight) = 2 /\ idx = 3

\* C4: under fair scheduling the pool eventually completes, and it is
\* complete only when every candidate was claimed and every worker exited.
C4_PoolTerminates ==
    /\ <>(poolState = "complete")
    /\ [](poolState = "complete" =>
            /\ idx >= N
            /\ \A j \in 0..(N - 1) : claims[j] >= 1
            /\ \A w \in DOMAIN workers : workers[w].pc = "done")

C4_Witness ==
    /\ poolState = "complete" /\ N = 3 /\ Len(workers) = 2 /\ idx = N + 2

\* C5: a candidate is in `good` only if its echo response came back over a
\* working transport with a 2xx status and a body that parses to an object
\* with a non-empty ip field.
C5_ConfirmedOnly2xxWithIp ==
    \A j \in 0..(N - 1) :
        candidates[j + 1] \in Range(good) =>
            /\ response[j].transport = "ok"
            /\ response[j].status \in 200..299
            /\ JSONparseEcho(response[j].stdout).kind = "object"
            /\ Truthy(JSONparseEcho(response[j].stdout).ip)

(***************************************************************************)
(* Claims about the crawler                                                *)
(***************************************************************************)
FailStep == state = "Fetching" /\ state' \in {"Retrying", "Aborted"}
PageStep == pageCount' = pageCount + 1

\* C6: every fetch attempt is tunneled exactly when a relay exists and the
\* 1-indexed page number is a multiple of 3, through the relay at index
\* floor(pageCount / 3) mod relayCount; every other attempt is direct.
C6_Routing ==
    /\ state = "Fetching" => attempt.page = pageCount + 1
    /\ attempt.tunneled <=> (Len(PROXIES) >= 1 /\ attempt.page % 3 = 0)
    /\ attempt.tunneled =>
          attempt.relay = ((attempt.page - 1) \div 3) % Len(PROXIES)
    /\ ~attempt.tunneled => attempt.relay = -1
    /\ (Len(PROXIES) = 2 /\ attempt.page \in {1, 2}) => ~attempt.tunneled
    /\ (Len(PROXIES) = 2 /\ attempt.page = 3) =>
          attempt.tunneled /\ attempt.relay = 0

\* the sixth page goes through the second of two relays
C6_Witness ==
    /\ state = "Fetching" /\ Len(PROXIES) = 2
    /\ attempt.page = 6 /\ attempt.tunneled /\ attempt.relay = 1

\* C7: a failed fetch leaves cursor, pageCount and servers unchanged, the
\* retry is issued for the same page with the same cursor, and the cursor
\* changes only on a successful page.
C7_FailureKeepsCursor ==
    /\ [][FailStep =>
            cursor' = cursor /\ pageCount' = pageCount /\ servers' = servers]_vars
    /\ [][(state = "Retrying" /\ state' = "Fetching") =>
            /\ attempt'.cursor = attempt.cursor
            /\ attempt'.cursor = cursor
            /\ attempt'.page = attempt.page]_vars
    /\ [][cursor' # cursor => PageStep /\ state = "Fetching" /\ tries' = 0]_vars

\* a retry of the second page, which carries a cursor
C7_Witness ==
    /\ state = "Fetching" /\ tries = 2 /\ pageCount = 1
    /\ cursor = "c2" /\ attempt.cursor = "c2" /\ servers # <<>>

C9_BackoffFormula ==
    state = "Retrying" =>
        delay = (IF upstream.kind = "http" /\ upstream.status = "429"
                 THEN 60 ELSE 10) * tries

\* C10: after a successful page the crawler is Completed iff pageCount has
\* reached MAX_PAGES or the page's next cursor is absent; otherwise it
\* pauses and fetches again with the new cursor.  An absent cursor on
\* page 2 completes the crawl at 2 pages for every MAX_PAGES > 2.
C10_CompletionRule ==
    /\ [][PageStep =>
            /\ state' = "Completed" <=>
                  (pageCount' >= MAX_PAGES \/ data'.next = null)
            /\ state' # "Completed" =>
                  state' = "Pausing" /\ cursor' = data'.next]_vars
    /\ [][state = "Pausing" =>
            /\ state' = "Fetching"
            /\ attempt'.cursor = data.next
            /\ attempt'.page = pageCount + 1]_vars
    /\ [][state' = "Completed" => PageStep \/ state = "Completed"]_vars
    /\ []((pageCount = 2 /\ data.next = null /\ MAX_PAGES > 2) =>
            state = "Completed")
    /\ [][state = "Completed" => pageCount' = pageCount]_vars

C10_Witness ==
    /\ state = "Completed" /\ pageCount = 2 /\ MAX_PAGES = MaxPagesBound
    /\ data.next = null /\ attempt.cursor # null

\* C11: every accumulated record has playing < maxPlayers: a full or
\* over-full page item is never appended, and a successful page appends, in
\* page order, exactly its items with a string id and playing < maxPlayers.
C11_Eligible(s) == s.idType = "string" /\ s.playing < s.maxPlayers
C11_OnlyOpenRecords ==
    /\ [](\A k \in DOMAIN servers : servers[k].playing < servers[k].maxPlayers)
    /\ [](\A k \in DOMAIN servers : servers[k].id \notin {ItemFull.id, ItemOver.id})
    /\ [][PageStep =>
            LET kept == SelectSeq(data'.items, C11_Eligible) IN
            /\ Len(servers') = Len(servers) + Len(kept)
            /\ \A k \in DOMAIN servers : servers'[k] = servers[k]
            /\ \A k \in DOMAIN kept :
                  /\ servers'[Len(servers) + k].id = kept[k].id
                  /\ servers'[Len(servers) + k].playing = kept[k].playing
                  /\ servers'[Len(servers) + k].maxPlayers = kept[k].maxPlayers]_vars
    /\ [][~PageStep => servers' = servers]_vars

\* a page holding a full, an over-full and an id-less item next to open ones
C11_Witness ==
    /\ data.items = <<ItemFull, ItemEmpty, ItemOver, ItemNoId>>
    /\ Len(servers) = 2
    /\ servers[1].id = ItemOpen.id /\ servers[2].id = ItemEmpty.id

(***************************************************************************)
(* Claims about persistence                                                *)
(***************************************************************************)
\* server_list.json as call k of `calls` left it
FileAfter(k) == IF k < Len(calls) THEN calls[k + 1].before ELSE file
SameTwice(k) == k + 1 <= Len(calls) /\ calls[k].content = calls[k + 1].content
Stored(f, c) == f.exists /\ f.content = c

\* C12 as stated: of two successive calls with the same content the first
\* writes and returns true, the second leaves the file alone and returns
\* false; a call whose content differs from the stored one writes.
C12_FirstWritesSecondNoop ==
    \A k \in DOMAIN calls :
        /\ SameTwice(k) =>
              /\ calls[k].ret /\ FileAfter(k) # calls[k].before
              /\ ~calls[k + 1].ret /\ FileAfter(k + 1) = calls[k + 1].before
        /\ ~Stored(calls[k].before, calls[k].content) =>
              calls[k].ret /\ Stored(FileAfter(k), calls[k].content)

\* C12 as amended: the first of the two calls writes and returns true
\* unless the location already holds that content, in which case it is a
\* no-op as well; the second call is always a no-op; so the two calls make
\* at most one write.  A call whose content differs from the stored one
\* always writes.
C12_AtMostOneWrite ==
    \A k \in DOMAIN calls :
        /\ calls[k].ret <=> ~Stored(calls[k].before, calls[k].content)
        /\ calls[k].ret <=> FileAfter(k) # calls[k].before
        /\ Stored(FileAfter(k), calls[k].content)
        /\ SameTwice(k) =>
              /\ ~calls[k + 1].ret /\ FileAfter(k + 1) = calls[k + 1].before
              /\ FileAfter(k + 1) = FileAfter(k)

\* the same snapshot twice over a different stored one, then a new snapshot
C12_Witness ==
    /\ Len(calls) = 3
    /\ calls[1].before.exists /\ calls[1].ret
    /\ calls[2].content = calls[1].content /\ ~calls[2].ret
    /\ calls[3].content # calls[2].content /\ calls[3].ret

\* C13: a second run against the same upstream pages, after a first run
\* that persisted its snapshot, reports unchanged and does not write.
C13_SecondRunNoWrite ==
    (run = 2 /\ exit = "0" /\ fileAtStart.exists) =>
        wrote = "false" /\ file = fileAtStart

\* C14: an unparseable success body is fatal: once it was answered, the
\* run is aborted with failure status instead of being retried.
C14_UnparseableIsFatal ==
    upstream.kind = "unparseable" => state = "Aborted" /\ exit = "1"

\* C17: a retry is routed like the failed attempt it repeats: same page,
\* tunneled through the same relay or direct again.
C17_RetrySameRoute ==
    /\ [][(state = "Retrying" /\ state' = "Fetching") =>
            /\ attempt'.page = attempt.page
            /\ attempt'.tunneled = attempt.tunneled
            /\ attempt'.relay = attempt.relay]_vars
    /\ [][attempt'.page = attempt.page =>
            attempt'.tunneled = attempt.tunneled /\ attempt'.relay = attempt.relay]_vars

\* the third attempt of a page tunneled through the second relay
C17_Witness ==
    /\ state = "Fetching" /\ tries = 2 /\ Len(PROXIES) = 2
    /\ attempt.page = 6 /\ attempt.tunneled /\ attempt.relay = 1

\* C18: 0 <= pageCount <= max(1, MAX_PAGES); with MAX_PAGES <= 0 the crawl
\* completes after exactly one page.
C18_PageCountBounded ==
    /\ 0 <= pageCount
    /\ pageCount <= (IF MAX_PAGES >= 1 THEN MAX_PAGES ELSE 1)
    /\ (state = "Completed" /\ MAX_PAGES <= 0) => pageCount = 1
    /\ (state = "Completed") => pageCount >= 1

\* a negative maximum: one page is fetched although more were on offer
C18_Witness ==
    state = "Completed" /\ MAX_PAGES = -1 /\ pageCount = 1 /\ data.next # null

\* C19: every run eventually reaches Completed or Aborted.
C19_CrawlTerminates == <>(state \in {"Completed", "Aborted"})

\* an upstream that never ends the pagination, with failures on the way
C19_Witness ==
    /\ state = "Completed" /\ pageCount = MAX_PAGES /\ MAX_PAGES = MaxLivePages
    /\ data.next # null /\ err.status = "429"

\* C20: an aborted run exits with status 1 and leaves server_list.json as
\* it was when the run started; the file is compared or written only by a
\* run that reached Completed.
C20_AbortWritesNothing ==
    /\ [](state = "Aborted" =>
            exit = "1" /\ wrote = "none" /\ file = fileAtStart)
    /\ [][(file' # file \/ wrote' \notin {wrote, "none"}) =>
            state = "Completed" /\ state' = "Completed" /\ exit' = "0"]_vars

\* the second run aborts on its second page, over the first run's snapshot
C20_Witness ==
    /\ run = 2 /\ state = "Aborted" /\ pageCount = 1 /\ servers # <<>>
    /\ file.exists /\ file = fileAtStart

(***************************************************************************)
(* The aggregation run (lines 83-98)                                       *)
(***************************************************************************)
\* State at line 84: every source requested, nothing settled
AggInit ==
    /\ srcResult = [s \in SOURCES |-> Pending]
    /\ all = NewSet
    /\ aggState = "fetching"
    /\ NormIdle /\ PoolIdle /\ CrawlIdle /\ RunIdle

\* The callback of one source (lines 85-94) runs when its request settles
SourceSettles(s, o) ==
    /\ aggState = "fetching"
    /\ srcResult[s] = Pending
    /\ srcResult' = [srcResult EXCEPT ![s] = o]
    /\ all' = addAll(all, normalized(fetchSource(o)))
    /\ UNCHANGED <<aggState, poolVars, crawlVars, runVars, normVars>>

\* Promise.all resolves, line 97 builds the candidates
AggregationCompletes ==
    /\ aggState = "fetching"
    /\ \A s \in SOURCES : srcResult[s] # Pending
    /\ candidates' = slice(ArrayFrom(all), CANDIDATE_CAP)
    /\ aggState' = "collected"
    /\ UNCHANGED <<srcResult, all, concurrency, idx, good, workers, poolState,
                   claims, response, crawlVars, runVars, normVars>>

AggNext ==
    \/ \E s \in SOURCES : \E o \in Outcomes(s) : SourceSettles(s, o)
    \/ AggregationCompletes

AggSpec == AggInit /\ [][AggNext]_vars

(***************************************************************************)
(* normalizeLine applied once and twice to a line                          *)
(***************************************************************************)
\* The characters input lines are built from
InputChars == {" ", "#", "a", "1", ":", "/", "."}
Lines == UNION { [1..n -> InputChars] : n \in 0..MaxLineLen }
Unset == [state |-> "unset", text |-> <<>>]

NormInit ==
    /\ line \in Lines
    /\ norm1 = Unset
    /\ norm2 = Unset
    /\ AggIdle /\ PoolIdle /\ CrawlIdle /\ RunIdle

\* const norm = normalizeLine(l) (line 91)
NormalizeOnce ==
    /\ norm1 = Unset
    /\ norm1' = normalizeLine(line)
    /\ UNCHANGED <<line, norm2, poolVars, crawlVars, runVars, aggVars>>

\* normalizeLine applied to a candidate it returned
NormalizeAgain ==
    /\ norm1.state = "present"
    /\ norm2 = Unset
    /\ norm2' = normalizeLine(norm1.text)
    /\ UNCHANGED <<line, norm1, poolVars, crawlVars, runVars, aggVars>>

NormNext == NormalizeOnce \/ NormalizeAgain

NormSpec == NormInit /\ [][NormNext]_vars

(***************************************************************************)
(* Claims about normalization and aggregation                              *)
(***************************************************************************)
C16_Blank(l) == \A k \in DOMAIN l : l[k] \in Whitespace
C16_Bare(l) ==
    /\ \E k \in 2..(Len(l) - 1) :
          /\ l[k] = ":"
          /\ \A j \in 1..(k - 1) : l[j] \in {"a", "1", "."}
          /\ \A j \in (k + 1)..Len(l) : l[j] = "1"

\* C16: a candidate returned by normalizeLine normalizes to itself; a bare
\* host:port line becomes http:// followed by the same text; a blank line
\* and a line that starts with # give no candidate.
C16_NormalizeIdempotent ==
    /\ norm2 # Unset => norm2 = norm1
    /\ (norm1 # Unset /\ C16_Bare(line)) =>
          norm1 = [state |-> "present",
                   text |-> <<"h", "t", "t", "p", ":", "/", "/">> \o line]
    /\ (norm1 # Unset /\ (C16_Blank(line) \/ Head(line) = "#")) =>
          norm1.state = "absent"
    /\ (norm1 # Unset /\ line = <<"1", ".", "1", ":", "1">>) =>
          norm1.text = <<"h", "t", "t", "p", ":", "/", "/", "1", ".", "1", ":", "1">>

\* a padded host:port line, normalized twice
C16_Witness ==
    /\ line = <<" ", "a", ":", "1", " ">>
    /\ norm1.text = <<"h", "t", "t", "p", ":", "/", "/", "a", ":", "1">>
    /\ norm2 = norm1

C15_Succeeded == {s \in SOURCES : srcResult[s].kind = "ok"}
C15_Normalized(s) ==
    {normalizeLine(srcResult[s].lines[k]) : k \in DOMAIN srcResult[s].lines}
C15_Distinct ==
    {n.text : n \in {m \in UNION {C15_Normalized(s) : s \in C15_Succeeded} :
                        m.state = "present"}}
C15_NoDuplicates ==
    Cardinality({candidates[i] : i \in DOMAIN candidates}) = Len(candidates)

\* C15 as stated: when aggregation has completed, some sources having
\* failed and the others having settled in any order, no fatal error was
\* raised, the output has no duplicates, holds nothing of a failed source
\* and has as many elements as there are distinct normalized values among
\* the lines of the sources that succeeded.
C15_SizeIsDistinctCount ==
    /\ aggState # "fatal"
    /\ aggState = "collected" =>
          /\ C15_NoDuplicates
          /\ {candidates[i] : i \in DOMAIN candidates} \subseteq C15_Distinct
          /\ Len(candidates) = Cardinality(C15_Distinct)

\* C15, amended: the set collected from the sources holds exactly the
\* distinct normalized values among the lines of the sources that succeeded,
\* and the output has as many elements as there are such values, or 750
\* when there are more than 750 of them; the rest as stated.
C15_SizeIsCappedDistinctCount ==
    /\ aggState # "fatal"
    /\ aggState = "collected" =>
          /\ C15_NoDuplicates
          /\ {candidates[i] : i \in DOMAIN candidates} \subseteq C15_Distinct
          /\ all.members = C15_Distinct
          /\ Len(all.order) = Cardinality(C15_Distinct)
          /\ Len(candidates) = Min(CANDIDATE_CAP, Cardinality(C15_Distinct))

\* the third source failed, the second settled before the first, and
\* together they hold more distinct values than the cap
C15_Witness ==
    /\ aggState = "collected"
    /\ srcResult[1].kind = "ok" /\ srcResult[2].kind = "ok"
    /\ srcResult[3].kind \in {"error", "status"}
    /\ Cardinality(C15_Distinct) > CANDIDATE_CAP
    /\ Len(candidates) = CANDIDATE_CAP
    /\ candidates[1] = <<"h", "t", "t", "p", ":", "/", "/", "3", "5", "1", ":", "1">>

====
